---- MODULE Spec2Model ----
(***************************************************************************)
(* Model of conda-auth's command line (src/conda_auth/cli.py) and of its   *)
(* OAuth2 handler (src/conda_auth/handlers/oauth2.py).                     *)
(*                                                                         *)
(* State: the OS keyring, the channel_settings blocks of the user's        *)
(* condarc, and the observable outcome of the command that ran last.       *)
(* Every CLI invocation is a process of its own, so each command is one    *)
(* atomic action.  Spec is the command line with the OAuth2 manager;       *)
(* HandlerSpec is the OAuth2 manager with the request-time OAuth2Handler.  *)
(***************************************************************************)
EXTENDS Naturals, Sequences, FiniteSets, TLC

VARIABLES
    keyring,            \* [KeyIds -> secret | NONE]: keyring.get/set/delete_password
    channel_settings,   \* [Channels -> block]: context.channel_settings / condarc
    last,               \* outcome of the command that ran last
    hist,               \* per channel: the latest login that wrote the keyring
    ncmd,               \* number of commands run so far
    handler,            \* [Channels -> OAuth2Handler of the channel's session]
    request             \* the request an OAuth2Handler was called on last

vars == <<keyring, channel_settings, last, hist, ncmd, handler, request>>

-----------------------------------------------------------------------------
(* Bounds and value sets *)

MaxCmds == 3

Channels == {"chan-a", "chan-b"}
Users    == {"alice", "bob"}
Secrets  == {"s1", "s2"}
LoginUrl == "https://x/authorize"

NONE == "<None>"

-----------------------------------------------------------------------------
(* Constants of the program *)

HTTP_BASIC_AUTH_NAME == "http-basic"
TOKEN_NAME           == "token"
OAUTH2_NAME          == "oauth2"
USERNAME             == "token"
OPTION_DEFAULT       == "CONDA_AUTH_DEFAULT"
LOGIN_URL_PARAM_NAME == "login_url"

\* the keys of AUTH_MANAGER_MAPPING
VALID_AUTH_CHOICES == {HTTP_BASIC_AUTH_NAME, TOKEN_NAME}

\* every AuthManager variant of the package
Schemes == {HTTP_BASIC_AUTH_NAME, TOKEN_NAME, OAUTH2_NAME}

\* an `auth` value no handler of the package answers to
UnknownAuth == "ldap"

\* error kinds raised by the commands
E_INVALID   == "invalid authentication type"
E_NOSESSION == "no logged in session"
E_CONFIG    == "configuration error"
E_LOGOUT    == "logout error"
E_CONDARC   == "condarc error"
E_NOCRED    == "credential not found"

-----------------------------------------------------------------------------
(* Keyring *)

\* the entries the managers address: Basic under a user's name, Token and
\* OAuth2 under the placeholder
KeyIds ==
    ({HTTP_BASIC_AUTH_NAME} \X Channels \X Users)
        \cup ({TOKEN_NAME, OAUTH2_NAME} \X Channels \X {USERNAME})

\* a keyring id that leaves the channel name out
MutKeyringIdNoChannel(scheme, channel_name) == <<scheme, "chan-a">>

\* f"{PLUGIN_NAME}::{OAUTH2_NAME}::{channel_name}"
get_keyring_id(scheme, channel_name) == <<scheme, channel_name>>

KrKey(kid, username) == <<kid[1], kid[2], username>>

\* keyring.get_password(keyring_id, username)
get_password(kr, kid, username) ==
    IF KrKey(kid, username) \in KeyIds THEN kr[KrKey(kid, username)] ELSE NONE

\* keyring.set_password(keyring_id, username, secret)
set_password(kr, kid, username, secret) ==
    [kr EXCEPT ![KrKey(kid, username)] = secret]

\* keyring.delete_password(keyring_id, username); raises PasswordDeleteError
\* when there is no such entry
delete_password(kr, kid, username) ==
    IF get_password(kr, kid, username) = NONE
    THEN [err |-> TRUE, kr |-> kr]
    ELSE [err |-> FALSE, kr |-> [kr EXCEPT ![KrKey(kid, username)] = NONE]]

-----------------------------------------------------------------------------
(* Channel settings blocks *)

NoBlock == [present |-> FALSE, auth |-> NONE, username |-> NONE, login_url |-> NONE]

Block(a, u, l) == [present |-> TRUE, auth |-> a, username |-> u, login_url |-> l]

\* blocks a user may have written into the condarc by hand before any login
InitBlocks ==
    { NoBlock,
      Block(OAUTH2_NAME, NONE, LoginUrl),
      Block(OAUTH2_NAME, NONE, NONE),
      Block(UnknownAuth, NONE, NONE) }

EmptySettings ==
    [auth |-> NONE, username |-> NONE, password |-> NONE, token |-> NONE,
     login_url |-> NONE]

\* get_channel_settings returning an empty dict where it returns None
MutSettingsNeverNone(cs, channel) ==
    [found |-> TRUE,
     settings |-> [EmptySettings EXCEPT !.auth = cs[channel].auth,
                                        !.username = cs[channel].username,
                                        !.login_url = cs[channel].login_url]]

\* get_channel_settings: the first block whose `channel` equals the name
get_channel_settings(cs, channel) ==
    IF cs[channel].present
    THEN [found |-> TRUE,
          settings |-> [EmptySettings EXCEPT !.auth = cs[channel].auth,
                                             !.username = cs[channel].username,
                                             !.login_url = cs[channel].login_url]]
    ELSE [found |-> FALSE, settings |-> EmptySettings]

-----------------------------------------------------------------------------
(* Command line of `conda auth login` *)

ParamNames == {"username", "password", "token"}

\* param.opts of the three click options
ParamOpts(name) ==
    CASE name = "username" -> {"-u", "--username"}
      [] name = "password" -> {"-p", "--password"}
      [] name = "token"    -> {"-t", "--token"}

LongOpt(name) ==
    CASE name = "username" -> "--username"
      [] name = "password" -> "--password"
      [] name = "token"    -> "--token"

\* One element of sys.argv.  ArgOpt("--token") is the string "--token",
\* ArgVal("s1") the string "s1", ArgJoined("--token", "s1") the single string
\* "--token=s1".
ArgOpt(o)       == [opt |-> o, val |-> NONE, joined |-> FALSE]
ArgVal(v)       == [opt |-> NONE, val |-> v, joined |-> FALSE]
ArgJoined(o, v) == [opt |-> o, val |-> v, joined |-> TRUE]

\* the four spellings of one option: "unset", "flag" (alone), "sep" (followed
\* by its value), "joined" (--opt=value)
ArgvOf(name, form, v) ==
    CASE form = "unset"  -> << >>
      [] form = "flag"   -> << ArgOpt(LongOpt(name)) >>
      [] form = "sep"    -> << ArgOpt(LongOpt(name)), ArgVal(v) >>
      [] form = "joined" -> << ArgJoined(LongOpt(name), v) >>

\* the value click hands to the callback of option `name`: the value that
\* follows or is joined to the option, flag_value when the option stands
\* alone, None when the option is not on the command line
ClickValue(argv, name) ==
    IF \E i \in 1..Len(argv) : argv[i].opt = LongOpt(name)
    THEN LET i == CHOOSE j \in 1..Len(argv) : argv[j].opt = LongOpt(name)
         IN  IF argv[i].joined THEN argv[i].val
             ELSE IF i < Len(argv) /\ argv[i + 1].opt = NONE THEN argv[i + 1].val
             ELSE OPTION_DEFAULT
    ELSE NONE

\* OptionTracker.track_callback: whether the option counts as used, and the
\* value it returns
track_callback(argv, name, value) ==
    [used  |-> \E opt \in ParamOpts(name) : \E i \in 1..Len(argv) : argv[i] = ArgOpt(opt),
     value |-> IF value # OPTION_DEFAULT THEN value ELSE NONE]

\* option_tracker.options_used after click parsed argv
OptionsUsed(argv) ==
    {name \in ParamNames : track_callback(argv, name, ClickValue(argv, name)).used}

\* **kwargs of login: the callbacks' return values
Kwargs(argv) ==
    [name \in ParamNames |-> track_callback(argv, name, ClickValue(argv, name)).value]

\* MutuallyExclusiveOption: --username/--password exclude --token
MutuallyExclusiveOk(argv) ==
    LET given(name) == \E i \in 1..Len(argv) : argv[i].opt = LongOpt(name)
    IN  ~(given("token") /\ (given("username") \/ given("password")))

\* the command lines of login that click accepts: every option unset or
\* followed by its value; --username and --token (which have a flag_value)
\* also alone, and also joined to their value
OptionArgvs(name, values) ==
    {ArgvOf(name, "unset", NONE)}
        \cup {ArgvOf(name, "sep", v) : v \in values}
        \cup (IF name = "password" THEN {}
              ELSE {ArgvOf(name, "flag", NONE)}
                       \cup {ArgvOf(name, "joined", v) : v \in values})

LoginArgvs ==
    {argv \in {u \o p \o t : u \in OptionArgvs("username", Users),
                             p \in OptionArgvs("password", Secrets),
                             t \in OptionArgvs("token", Secrets)} :
        MutuallyExclusiveOk(argv)}

\* click's parse of each command line: options_used and **kwargs
ParsedArgv ==
    [argv \in LoginArgvs |-> [options_used |-> OptionsUsed(argv), kwargs |-> Kwargs(argv)]]

-----------------------------------------------------------------------------
(* Selector *)

MutSelectorInferFirst(options, options_used) ==
    IF "username" \in options_used \/ "password" \in options_used
    THEN [err |-> NONE, auth_type |-> HTTP_BASIC_AUTH_NAME]
    ELSE IF "token" \in options_used
    THEN [err |-> NONE, auth_type |-> TOKEN_NAME]
    ELSE IF options.auth # NONE
    THEN IF options.auth \notin VALID_AUTH_CHOICES
         THEN [err |-> E_INVALID, auth_type |-> NONE]
         ELSE [err |-> NONE, auth_type |-> options.auth]
    ELSE [err |-> NONE, auth_type |-> HTTP_BASIC_AUTH_NAME]

MutSelectorDefaultUnknown(options, options_used) ==
    IF options.auth \in VALID_AUTH_CHOICES
    THEN [err |-> NONE, auth_type |-> options.auth]
    ELSE IF "username" \in options_used \/ "password" \in options_used
    THEN [err |-> NONE, auth_type |-> HTTP_BASIC_AUTH_NAME]
    ELSE IF "token" \in options_used
    THEN [err |-> NONE, auth_type |-> TOKEN_NAME]
    ELSE [err |-> NONE, auth_type |-> HTTP_BASIC_AUTH_NAME]

\* get_auth_manager(options); option_tracker.options_used is its global input
get_auth_manager(options, options_used) ==
    IF options.auth # NONE
    THEN IF options.auth \notin VALID_AUTH_CHOICES
         THEN [err |-> E_INVALID, auth_type |-> NONE]
         ELSE [err |-> NONE, auth_type |-> options.auth]
    ELSE IF "username" \in options_used \/ "password" \in options_used
    THEN [err |-> NONE, auth_type |-> HTTP_BASIC_AUTH_NAME]
    ELSE IF "token" \in options_used
    THEN [err |-> NONE, auth_type |-> TOKEN_NAME]
    ELSE [err |-> NONE, auth_type |-> HTTP_BASIC_AUTH_NAME]

-----------------------------------------------------------------------------
(* Auth managers.  A fetch returns the error raised (or NONE), the identity
   and secret found, the keyring calls made, and whether the user was
   prompted. *)

Fetched(e, u, s, c, p) ==
    [err |-> e, username |-> u, secret |-> s, calls |-> c, prompted |-> p]

\* OAuth2Manager._fetch_secret prompting whatever the keyring holds
MutOAuth2AlwaysPrompts(kr, channel, settings, typed) ==
    IF settings.login_url = NONE
    THEN Fetched(E_CONFIG, NONE, NONE, << >>, FALSE)
    ELSE Fetched(NONE, USERNAME, typed, <<"get">>, TRUE)

\* OAuth2Manager._fetch_secret with the check of the keyring placed before
\* the check of login_url
MutOAuth2KeyringFirst(kr, channel, settings, typed) ==
    LET token == get_password(kr, get_keyring_id(OAUTH2_NAME, channel), USERNAME)
    IN  IF token # NONE THEN Fetched(NONE, USERNAME, token, <<"get">>, FALSE)
        ELSE IF settings.login_url = NONE
        THEN Fetched(E_CONFIG, NONE, NONE, <<"get">>, FALSE)
        ELSE Fetched(NONE, USERNAME, typed, <<"get">>, TRUE)

\* OAuth2Manager._fetch_secret; `typed` is what the user types at the prompt
OAuth2_fetch_secret(kr, channel, settings, typed) ==
    LET login_url == settings.login_url
        token == get_password(kr, get_keyring_id(OAUTH2_NAME, channel), USERNAME)
    IN  IF login_url = NONE
        THEN Fetched(E_CONFIG, NONE, NONE, << >>, FALSE)
        ELSE IF token = NONE
        THEN Fetched(NONE, USERNAME, typed, <<"get">>, TRUE)
        ELSE Fetched(NONE, USERNAME, token, <<"get">>, FALSE)

\* BasicAuthManager: identity is the supplied username, secret the supplied
\* password; without a password the secret stored for that identity is reused
Basic_fetch_secret(kr, channel, settings) ==
    LET username == settings.username
        stored == get_password(kr, get_keyring_id(HTTP_BASIC_AUTH_NAME, channel), username)
    IN  IF username = NONE
        THEN Fetched(E_CONFIG, NONE, NONE, << >>, FALSE)
        ELSE IF settings.password # NONE
        THEN Fetched(NONE, username, settings.password, << >>, FALSE)
        ELSE IF stored = NONE
        THEN Fetched(E_CONFIG, NONE, NONE, <<"get">>, FALSE)
        ELSE Fetched(NONE, username, stored, <<"get">>, FALSE)

\* TokenAuthManager: identity is a placeholder, secret the supplied token
Token_fetch_secret(kr, channel, settings) ==
    IF settings.token = NONE
    THEN Fetched(E_CONFIG, NONE, NONE, << >>, FALSE)
    ELSE Fetched(NONE, USERNAME, settings.token, << >>, FALSE)

fetch_secret(scheme, kr, channel, settings, typed) ==
    CASE scheme = HTTP_BASIC_AUTH_NAME -> Basic_fetch_secret(kr, channel, settings)
      [] scheme = TOKEN_NAME           -> Token_fetch_secret(kr, channel, settings)
      [] scheme = OAUTH2_NAME          -> OAuth2_fetch_secret(kr, channel, settings, typed)

\* AuthManager.store: fetch the identity and the secret, write the secret to
\* the keyring under the scheme's keyring id, return the identity
store(scheme, kr, channel, settings, typed) ==
    LET f == fetch_secret(scheme, kr, channel, settings, typed)
    IN  IF f.err # NONE
        THEN [err |-> f.err, username |-> NONE, secret |-> NONE, stored |-> FALSE,
              calls |-> f.calls, prompted |-> f.prompted, kr |-> kr]
        ELSE [err |-> NONE, username |-> f.username, secret |-> f.secret,
              stored |-> TRUE, calls |-> Append(f.calls, "set"),
              prompted |-> f.prompted,
              kr |-> set_password(kr, get_keyring_id(scheme, channel), f.username, f.secret)]

\* the identity remove_secret addresses: the placeholder, or for Basic the
\* username of the settings
RemoveIdentity(scheme, settings) ==
    IF scheme = HTTP_BASIC_AUTH_NAME THEN settings.username ELSE USERNAME

MutRemoveKeepsEntry(scheme, kr, channel, settings) ==
    [err |-> NONE, calls |-> << >>, kr |-> kr]

MutRemoveSwallows(scheme, kr, channel, settings) ==
    LET d == delete_password(kr, get_keyring_id(scheme, channel),
                             RemoveIdentity(scheme, settings))
    IN  [err |-> NONE, calls |-> <<"delete">>, kr |-> d.kr]

\* remove_secret (OAuth2Manager.remove_secret; the other managers alike)
remove_secret(scheme, kr, channel, settings) ==
    LET d == delete_password(kr, get_keyring_id(scheme, channel),
                             RemoveIdentity(scheme, settings))
    IN  [err |-> IF d.err THEN E_LOGOUT ELSE NONE,
         calls |-> <<"delete">>, kr |-> d.kr]

\* AuthManager.get_secret(channel_name): read the keyring entry of the
\* channel under the identity the channel's block records
get_secret(scheme, kr, cs, channel) ==
    LET username == IF scheme = HTTP_BASIC_AUTH_NAME
                    THEN cs[channel].username ELSE USERNAME
        secret == get_password(kr, get_keyring_id(scheme, channel), username)
    IN  IF secret = NONE
        THEN [err |-> E_NOCRED, username |-> NONE, secret |-> NONE]
        ELSE [err |-> NONE, username |-> username, secret |-> secret]

\* the scheme a later request resolves for the channel from its block
RecordedScheme(cs, channel) ==
    IF cs[channel].auth \in Schemes THEN cs[channel].auth
    ELSE HTTP_BASIC_AUTH_NAME

\* CondaRC.update_channel_settings: upsert auth and username of the block
update_channel_settings(cs, channel, auth_type, username) ==
    [cs EXCEPT ![channel] = Block(auth_type, username, cs[channel].login_url)]

-----------------------------------------------------------------------------
(* Commands *)

\* request.headers["Authorization"]
NoHeader == [scheme |-> NONE, cred |-> NONE]

Header(scheme, cred) == [scheme |-> scheme, cred |-> cred]

NoRequest == [sent_by |-> NONE, authorization |-> NoHeader]

\* an OAuth2Handler: self.token; `read` keeps what the keyring held for the
\* channel when the handler was constructed
NoHandler == [built |-> FALSE, channel_name |-> NONE, token |-> NONE, read |-> NONE]

NoLogin == [has |-> FALSE, ok |-> FALSE, scheme |-> NONE, ident |-> NONE, secret |-> NONE]

NoCommand ==
    [op |-> "none", chan |-> NONE, err |-> NONE, found |-> FALSE,
     argv |-> << >>, used |-> {}, settings |-> EmptySettings,
     auth |-> NONE, stored |-> FALSE, ident |-> NONE, secret |-> NONE,
     calls |-> << >>, prompted |-> FALSE, echoed |-> FALSE, prev |-> NoLogin,
     kr_changed |-> FALSE, cs_changed |-> FALSE,
     persisted |-> EmptySettings, before |-> NONE,
     others_changed |-> FALSE, after_logout |-> FALSE,
     names |-> NONE]

Init ==
    /\ keyring = [k \in KeyIds |-> NONE]
    /\ channel_settings \in [Channels -> InitBlocks]
    /\ last = NoCommand
    /\ hist = [c \in Channels |-> NoLogin]
    /\ ncmd = 0
    /\ handler = [c \in Channels |-> NoHandler]
    /\ request = NoRequest

\* what the command did to the two stores, recorded with its outcome
Observed(l, kr, cs) ==
    [l EXCEPT !.kr_changed = (kr # keyring),
              !.cs_changed = (cs # channel_settings),
              !.others_changed =
                  \E d \in Channels \ {l.chan} :
                      \/ cs[d] # channel_settings[d]
                      \/ \E k \in KeyIds : k[2] = d /\ kr[k] # keyring[k]]

\* kwargs without the None values, laid over the channel's settings
MutMergePersistedWins(persisted, kwargs) ==
    [persisted EXCEPT
        !.username = IF persisted.username # NONE THEN @ ELSE kwargs["username"],
        !.password = IF persisted.password # NONE THEN @ ELSE kwargs["password"],
        !.token    = IF persisted.token # NONE THEN @ ELSE kwargs["token"]]

MergeSettings(persisted, kwargs) ==
    [persisted EXCEPT
        !.username = IF kwargs["username"] # NONE THEN kwargs["username"] ELSE @,
        !.password = IF kwargs["password"] # NONE THEN kwargs["password"] ELSE @,
        !.token    = IF kwargs["token"] # NONE THEN kwargs["token"] ELSE @]

MutRecordNoUsername(auth_type, username) == NONE

MutRecordAlwaysUsername(auth_type, username) == username

\* login never records a username for the token scheme
RecordedUsername(auth_type, username) ==
    IF auth_type = TOKEN_NAME THEN NONE ELSE username

\* login without the condarc update
MutPersistNothing(cs, channel, auth_type, username) == cs

\* the try block of login: CondaRC().update_channel_settings(...) and save()
PersistRecord(cs, channel, auth_type, username) ==
    update_channel_settings(cs, channel, auth_type, RecordedUsername(auth_type, username))

\* login swallowing the CondaRCError
MutFailedSaveSilent(kr, cs, h, done) ==
    [kr |-> kr, cs |-> cs, h |-> h, last |-> done]

\* the except branch of login: the CondaRCError becomes a CondaAuthError,
\* after store() wrote the keyring and the success message was printed
FailedSave(kr, cs, h, done) ==
    [kr |-> kr, cs |-> cs, h |-> h, last |-> [done EXCEPT !.err = E_CONDARC]]

\* the body of login, from the parsed command line to the condarc update
LoginOutcome(kr, cs, h, channel, argv, condarc_fails) ==
    LET options_used == ParsedArgv[argv].options_used
        settings == MergeSettings(get_channel_settings(cs, channel).settings,
                                  ParsedArgv[argv].kwargs)
        sel == get_auth_manager(settings, options_used)
        st  == store(sel.auth_type, kr, channel, settings, NONE)
        base == [NoCommand EXCEPT !.op = "login", !.chan = channel,
                                  !.found = get_channel_settings(cs, channel).found,
                                  !.argv = argv, !.used = options_used,
                                  !.persisted = get_channel_settings(cs, channel).settings,
                                  !.settings = settings, !.prev = h[channel]]
    IN  IF sel.err # NONE
        THEN [kr |-> kr, cs |-> cs, h |-> h, last |-> [base EXCEPT !.err = sel.err]]
        ELSE IF st.err # NONE
        THEN [kr |-> kr, cs |-> cs, h |-> h,
              last |-> [base EXCEPT !.err = st.err, !.auth = sel.auth_type,
                                    !.calls = st.calls]]
        ELSE LET done == [base EXCEPT !.auth = sel.auth_type, !.stored = TRUE,
                                      !.ident = st.username, !.secret = st.secret,
                                      !.calls = st.calls, !.echoed = TRUE]
                 entry == [has |-> TRUE, ok |-> ~condarc_fails, scheme |-> sel.auth_type,
                           ident |-> st.username, secret |-> st.secret]
             IN  IF condarc_fails
                 THEN FailedSave(st.kr, cs, [h EXCEPT ![channel] = entry], done)
                 ELSE [kr |-> st.kr,
                       cs |-> PersistRecord(cs, channel, sel.auth_type, st.username),
                       h |-> [h EXCEPT ![channel] = entry],
                       last |-> done]

\* conda auth login <channel> [--username U | --token T] [--password P]
Login(channel, argv, condarc_fails) ==
    /\ ncmd < MaxCmds
    /\ \E out \in {LoginOutcome(keyring, channel_settings, hist, channel, argv, condarc_fails)} :
           /\ (condarc_fails => out.last.stored)
           /\ keyring' = out.kr
           /\ channel_settings' = out.cs
           /\ hist' = out.h
           /\ last' = Observed(out.last, out.kr, out.cs)
    /\ ncmd' = ncmd + 1
    /\ UNCHANGED <<handler, request>>

\* logout that also drops the channel's block
MutLogoutDropsBlock(kr, cs, h, channel) ==
    LET gs  == get_channel_settings(cs, channel)
        sel == get_auth_manager(gs.settings, {})
        rm  == remove_secret(sel.auth_type, kr, channel, gs.settings)
        base == [NoCommand EXCEPT !.op = "logout", !.chan = channel,
                                  !.found = gs.found, !.settings = gs.settings,
                                  !.persisted = gs.settings, !.prev = h[channel]]
    IN  IF ~gs.found
        THEN [kr |-> kr, cs |-> cs, h |-> h, last |-> [base EXCEPT !.err = E_NOSESSION]]
        ELSE IF sel.err # NONE
        THEN [kr |-> kr, cs |-> cs, h |-> h, last |-> [base EXCEPT !.err = sel.err]]
        ELSE IF rm.err # NONE
        THEN [kr |-> rm.kr, cs |-> cs, h |-> h,
              last |-> [base EXCEPT !.err = rm.err, !.auth = sel.auth_type,
                                    !.calls = rm.calls]]
        ELSE [kr |-> rm.kr, cs |-> [cs EXCEPT ![channel] = NoBlock],
              h |-> [h EXCEPT ![channel] = NoLogin],
              last |-> [base EXCEPT !.auth = sel.auth_type, !.calls = rm.calls,
                                    !.echoed = TRUE]]

\* the body of logout
LogoutOutcome(kr, cs, h, channel) ==
    LET gs  == get_channel_settings(cs, channel)
        sel == get_auth_manager(gs.settings, {})
        rm  == remove_secret(sel.auth_type, kr, channel, gs.settings)
        base == [NoCommand EXCEPT !.op = "logout", !.chan = channel,
                                  !.found = gs.found, !.settings = gs.settings,
                                  !.persisted = gs.settings, !.prev = h[channel]]
    IN  IF ~gs.found
        THEN [kr |-> kr, cs |-> cs, h |-> h, last |-> [base EXCEPT !.err = E_NOSESSION]]
        ELSE IF sel.err # NONE
        THEN [kr |-> kr, cs |-> cs, h |-> h, last |-> [base EXCEPT !.err = sel.err]]
        ELSE IF rm.err # NONE
        THEN [kr |-> rm.kr, cs |-> cs, h |-> h,
              last |-> [base EXCEPT !.err = rm.err, !.auth = sel.auth_type,
                                    !.calls = rm.calls]]
        ELSE [kr |-> rm.kr, cs |-> cs, h |-> [h EXCEPT ![channel] = NoLogin],
              last |-> [base EXCEPT !.auth = sel.auth_type, !.calls = rm.calls,
                                    !.echoed = TRUE]]

\* conda auth logout <channel>
Logout(channel) ==
    /\ ncmd < MaxCmds
    /\ \E out \in {LogoutOutcome(keyring, channel_settings, hist, channel)} :
           /\ keyring' = out.kr
           /\ channel_settings' = out.cs
           /\ hist' = out.h
           /\ last' = [Observed(out.last, out.kr, out.cs) EXCEPT
                          !.after_logout = /\ last.op = "logout"
                                           /\ last.err = NONE
                                           /\ last.chan = channel]
    /\ ncmd' = ncmd + 1
    /\ UNCHANGED <<handler, request>>

\* OAuth2Manager.store(channel, settings) on the module's `manager`, with the
\* settings of the channel's block; `typed` is the user's answer to the prompt
OAuth2Store(channel, typed) ==
    /\ ncmd < MaxCmds
    /\ \E gs \in {get_channel_settings(channel_settings, channel)} :
       \E st \in {store(OAUTH2_NAME, keyring, channel, gs.settings, typed)} :
           /\ keyring' = st.kr
           /\ last' = Observed(
                  [NoCommand EXCEPT !.op = "oauth2_store", !.chan = channel,
                                    !.found = gs.found, !.settings = gs.settings,
                                    !.persisted = gs.settings,
                                    !.before = get_password(keyring,
                                                   get_keyring_id(OAUTH2_NAME, channel),
                                                   USERNAME),
                                    !.err = st.err, !.auth = OAUTH2_NAME,
                                    !.stored = st.stored, !.ident = st.username,
                                    !.secret = st.secret, !.calls = st.calls,
                                    !.prompted = st.prompted,
                                    !.prev = hist[channel]],
                  st.kr, channel_settings)
    /\ ncmd' = ncmd + 1
    /\ UNCHANGED <<channel_settings, hist, handler, request>>

\* OAuth2Manager.remove_secret(channel, settings) on the module's `manager`
OAuth2Remove(channel) ==
    /\ ncmd < MaxCmds
    /\ \E gs \in {get_channel_settings(channel_settings, channel)} :
       \E rm \in {remove_secret(OAUTH2_NAME, keyring, channel, gs.settings)} :
           /\ keyring' = rm.kr
           /\ last' = Observed(
                  [NoCommand EXCEPT !.op = "oauth2_remove", !.chan = channel,
                                    !.found = gs.found, !.settings = gs.settings,
                                    !.err = rm.err, !.auth = OAUTH2_NAME,
                                    !.calls = rm.calls, !.prev = hist[channel]],
                  rm.kr, channel_settings)
    /\ ncmd' = ncmd + 1
    /\ UNCHANGED <<channel_settings, hist, handler, request>>

\* OAuth2Handler.__init__ building the handler although no token was found
MutInitIgnoresMissing(kr, cs, channel_name) ==
    LET g == get_secret(OAUTH2_NAME, kr, cs, channel_name)
    IN  [err |-> NONE, names |-> NONE, calls |-> <<"get">>,
         handler |-> [NoHandler EXCEPT !.built = TRUE, !.channel_name = channel_name,
                                       !.token = g.secret]]

\* OAuth2Handler.__init__: manager.get_secret(channel_name), CondaError when
\* it yields no token
OAuth2Handler_init(kr, cs, channel_name) ==
    LET g == get_secret(OAUTH2_NAME, kr, cs, channel_name)
    IN  IF g.err # NONE \/ g.secret = NONE
        THEN [err |-> E_NOCRED, names |-> channel_name, calls |-> <<"get">>,
              handler |-> NoHandler]
        ELSE [err |-> NONE, names |-> NONE, calls |-> <<"get">>,
              handler |-> [NoHandler EXCEPT !.built = TRUE,
                                            !.channel_name = channel_name,
                                            !.token = g.secret]]

\* OAuth2Handler.__call__ asking the manager for the secret again
MutCallRefetches(h, kr, cs, headers) ==
    [calls |-> <<"get">>,
     headers |-> Header("Bearer", get_secret(OAUTH2_NAME, kr, cs, h.channel_name).secret)]

\* OAuth2Handler.__call__: request.headers["Authorization"] = f"Bearer {self.token}"
OAuth2Handler_call(h, kr, cs, headers) ==
    [calls |-> << >>, headers |-> Header("Bearer", h.token)]

\* a session constructs the channel's OAuth2Handler
Construct(channel) ==
    /\ \E r \in {OAuth2Handler_init(keyring, channel_settings, channel)} :
           /\ handler' = [handler EXCEPT ![channel] =
                             IF r.handler.built
                             THEN [r.handler EXCEPT !.read =
                                      get_password(keyring,
                                          get_keyring_id(OAUTH2_NAME, channel), USERNAME)]
                             ELSE r.handler]
           /\ last' = [NoCommand EXCEPT !.op = "construct", !.chan = channel,
                                        !.err = r.err, !.names = r.names,
                                        !.auth = OAUTH2_NAME,
                                        !.secret = r.handler.token,
                                        !.calls = r.calls]
    /\ UNCHANGED <<keyring, channel_settings, hist, ncmd, request>>

\* the headers a request may carry before the handler is called on it
PriorHeaders == {NoHeader, Header("Basic", "stale")}

\* the session calls its OAuth2Handler on a request
Call(channel, prior) ==
    /\ handler[channel].built
    /\ \E r \in {OAuth2Handler_call(handler[channel], keyring, channel_settings, prior)} :
           /\ request' = [sent_by |-> channel, authorization |-> r.headers]
           /\ last' = [NoCommand EXCEPT !.op = "call", !.chan = channel,
                                        !.auth = OAUTH2_NAME, !.calls = r.calls]
    /\ UNCHANGED <<keyring, channel_settings, hist, ncmd, handler>>

Next ==
    \/ \E c \in Channels, argv \in LoginArgvs, condarc_fails \in BOOLEAN :
            Login(c, argv, condarc_fails)
    \/ \E c \in Channels : Logout(c)
    \/ \E c \in Channels, typed \in Secrets : OAuth2Store(c, typed)
    \/ \E c \in Channels : OAuth2Remove(c)

Spec == Init /\ [][Next]_vars

\* the OAuth2 blocks a channel may carry, and a keyring whose oauth2 entries
\* may have been filled out of band
HandlerInit ==
    /\ \E pre \in [Channels -> Secrets \cup {NONE}] :
           keyring = [k \in KeyIds |->
                         IF k[1] = OAUTH2_NAME THEN pre[k[2]] ELSE NONE]
    /\ channel_settings \in [Channels -> InitBlocks \ {Block(UnknownAuth, NONE, NONE)}]
    /\ last = NoCommand
    /\ hist = [c \in Channels |-> NoLogin]
    /\ ncmd = 0
    /\ handler = [c \in Channels |-> NoHandler]
    /\ request = NoRequest

HandlerNext ==
    \/ \E c \in Channels, typed \in Secrets : OAuth2Store(c, typed)
    \/ \E c \in Channels : OAuth2Remove(c)
    \/ \E c \in Channels : Construct(c)
    \/ \E c \in Channels, prior \in PriorHeaders : Call(c, prior)

HandlerSpec == HandlerInit /\ [][HandlerNext]_vars

-----------------------------------------------------------------------------
(* Properties *)

\* what a request for the channel reads: get_secret of the scheme its block
\* records
RequestSecret(channel) ==
    get_secret(RecordedScheme(channel_settings, channel), keyring, channel_settings, channel)

\* whether the option was written on the command line, in any spelling
Given(argv, name) == \E i \in 1..Len(argv) : argv[i].opt = LongOpt(name)

\* whether the option was written alone, with no value following it
Alone(argv, name) ==
    \E i \in 1..Len(argv) :
        /\ argv[i] = ArgOpt(LongOpt(name))
        /\ (i = Len(argv) \/ argv[i + 1].opt # NONE)

\* C1: after a login that completed, and after OAuth2Manager.store completed,
\* get_secret of the scheme used returns the identity and the secret that the
\* command stored.
C1_StoredSecretIsReadBack ==
    (last.op \in {"login", "oauth2_store"} /\ last.err = NONE)
        => get_secret(last.auth, keyring, channel_settings, last.chan)
               = [err |-> NONE, username |-> last.ident, secret |-> last.secret]

C1_Witness ==
    /\ last.op = "login" /\ last.err = NONE
    /\ last.auth = HTTP_BASIC_AUTH_NAME /\ last.secret = "s2"
    /\ last.prev.has /\ last.prev.secret = "s1"
    /\ RequestSecret(last.chan).secret = "s2"

\* C2: a successful logout that follows a successful login of the channel
\* leaves no entry of that login in the keyring, and get_secret for the
\* channel fails with credential-not-found; the same for the OAuth2 manager's
\* remove_secret.
C2_LogoutThenGetSecretFails ==
    /\ (last.op = "logout" /\ last.err = NONE /\ last.prev.has /\ last.prev.ok)
           => /\ RequestSecret(last.chan).err = E_NOCRED
              /\ get_password(keyring, get_keyring_id(last.prev.scheme, last.chan),
                              last.prev.ident) = NONE
    /\ (last.op = "oauth2_remove" /\ last.err = NONE)
           => get_secret(OAUTH2_NAME, keyring, channel_settings, last.chan).err = E_NOCRED

C2_Witness ==
    /\ last.op = "logout" /\ last.err = NONE
    /\ last.prev.has /\ last.prev.ok /\ last.prev.secret \in Secrets
    /\ last.kr_changed
    /\ RequestSecret(last.chan).err = E_NOCRED

\* C3: when the settings carry an `auth` value the selector knows, login and
\* logout select that scheme, whatever options were given on the command line.
C3_ExplicitAuthWins ==
    (last.op \in {"login", "logout"} /\ last.settings.auth \in VALID_AUTH_CHOICES)
        => last.auth = last.settings.auth

C3_Witness ==
    /\ last.op = "login"
    /\ last.settings.auth = TOKEN_NAME
    /\ "username" \in last.used
    /\ last.auth = TOKEN_NAME

\* C4: without `auth` in the settings, login selects Basic when --username or
\* --password was given on the command line, else Token when --token was
\* given, else Basic; an option given alone (the sentinel) counts as given and
\* leaves no value in the settings.
C4_InferenceFromGivenOptions ==
    (last.op = "login" /\ last.settings.auth = NONE)
        => /\ last.auth =
                 IF Given(last.argv, "username") \/ Given(last.argv, "password")
                 THEN HTTP_BASIC_AUTH_NAME
                 ELSE IF Given(last.argv, "token") THEN TOKEN_NAME
                 ELSE HTTP_BASIC_AUTH_NAME
           /\ \A name \in ParamNames :
                 Alone(last.argv, name)
                     => name \in last.used /\ Kwargs(last.argv)[name] = NONE

\* C5: a login or logout whose settings carry an `auth` value the selector
\* does not know ends with the invalid-authentication-type error, makes no
\* keyring call, prints nothing and leaves keyring and channel settings as
\* they were.
C5_InvalidAuthAbortsBeforeIO ==
    (last.op \in {"login", "logout"}
        /\ last.settings.auth \notin (VALID_AUTH_CHOICES \cup {NONE}))
        => /\ last.err = E_INVALID
           /\ last.calls = << >>
           /\ ~last.echoed /\ ~last.stored
           /\ ~last.kr_changed /\ ~last.cs_changed

C5_Witness ==
    /\ last.op = "login"
    /\ last.settings.auth = UnknownAuth
    /\ last.settings.password # NONE
    /\ last.err = E_INVALID

\* C6: a login on a channel whose settings name oauth2 and carry login_url,
\* with no secret stored before, prompts, stores the typed token under the
\* oauth2 keyring id and records {auth: oauth2} without a username.
C6_OAuth2LoginCompletes ==
    (last.op = "login" /\ last.settings.auth = OAUTH2_NAME
        /\ last.settings.login_url # NONE /\ ~last.prev.has)
        => /\ last.err = NONE
           /\ last.prompted
           /\ get_password(keyring, get_keyring_id(OAUTH2_NAME, last.chan), USERNAME)
                  \in Secrets
           /\ channel_settings[last.chan].auth = OAUTH2_NAME
           /\ channel_settings[last.chan].username = NONE

\* C7: logout of a channel that has no channel-settings block ends with the
\* no-session error, makes no keyring call and prints no success message.
C7_LogoutWithoutBlock ==
    (last.op = "logout" /\ ~channel_settings[last.chan].present)
        => /\ last.err = E_NOSESSION
           /\ last.calls = << >>
           /\ ~last.echoed
           /\ ~last.kr_changed

C7_Witness ==
    /\ last.op = "logout"
    /\ ~channel_settings[last.chan].present
    /\ last.prev.has
    /\ last.err = E_NOSESSION

\* C8: OAuth2Manager.store on settings without login_url ends with the
\* configuration error having made no keyring call and shown no prompt;
\* keyring and channel settings are as they were.
C8_OAuth2NoLoginUrl ==
    (last.op = "oauth2_store" /\ last.settings.login_url = NONE)
        => /\ last.err = E_CONFIG
           /\ last.calls = << >>
           /\ ~last.prompted /\ ~last.stored
           /\ ~last.kr_changed /\ ~last.cs_changed

C8_Witness ==
    /\ last.op = "oauth2_store"
    /\ last.settings.auth = OAUTH2_NAME
    /\ last.settings.login_url = NONE
    /\ last.err = E_CONFIG
    /\ last.calls = << >>

C10_LogoutKeepsRecord ==
    last.op = "logout"
        => /\ ~last.cs_changed
           /\ (last.found => channel_settings[last.chan].auth = last.settings.auth
                             /\ channel_settings[last.chan].username = last.settings.username)

C10_Witness ==
    /\ last.op = "logout" /\ last.err = NONE
    /\ last.kr_changed
    /\ channel_settings[last.chan].auth = HTTP_BASIC_AUTH_NAME
    /\ channel_settings[last.chan].username \in Users

\* C11: a channel's block that records the token scheme carries no username;
\* a completed login records the scheme it used, with the identity store()
\* returned as username for Basic and no username for Token.
C11_TokenRecordHasNoUsername ==
    /\ \A c \in Channels :
           channel_settings[c].auth = TOKEN_NAME => channel_settings[c].username = NONE
    /\ (last.op = "login" /\ last.err = NONE)
           => /\ channel_settings[last.chan].auth = last.auth
              /\ last.auth = TOKEN_NAME => channel_settings[last.chan].username = NONE
              /\ last.auth = HTTP_BASIC_AUTH_NAME
                     => channel_settings[last.chan].username = last.ident

C11_Witness ==
    /\ last.op = "login" /\ last.err = NONE
    /\ last.auth = TOKEN_NAME /\ last.ident = USERNAME
    /\ channel_settings[last.chan].auth = TOKEN_NAME
    /\ channel_settings[last.chan].username = NONE
    /\ \E d \in Channels : channel_settings[d].username \in Users

\* C12: a login whose condarc update fails after store() wrote the keyring
\* ends with the condarc error, having printed the success message; the
\* secret is in the keyring and the channel settings are as they were. A
\* login that stored nothing ends with another error and prints nothing.
C12_PartialLoginReported ==
    /\ (last.op = "login" /\ last.stored /\ ~hist[last.chan].ok)
           => /\ last.err = E_CONDARC
              /\ last.echoed
              /\ ~last.cs_changed
              /\ get_password(keyring, get_keyring_id(last.auth, last.chan), last.ident)
                     = last.secret
    /\ (last.op = "login" /\ last.err # NONE /\ ~last.stored)
           => /\ last.err \in {E_INVALID, E_CONFIG}
              /\ ~last.echoed
              /\ ~last.kr_changed /\ ~last.cs_changed

C12_Witness ==
    /\ last.op = "login" /\ last.err = E_CONDARC
    /\ last.stored /\ last.kr_changed
    /\ last.prev.has /\ last.prev.ok /\ last.prev.ident # last.ident
    /\ channel_settings[last.chan].username = last.prev.ident

\* the keyring entry of the channel's OAuth2 token
OAuth2Entry(channel) ==
    get_password(keyring, get_keyring_id(OAUTH2_NAME, channel), USERNAME)

\* C13: an OAuth2Handler reads the keyring once, when it is constructed; a
\* call on a request reads nothing and sets Authorization to Bearer of the
\* token read at construction, whatever the keyring holds by then.
C13_TokenReadOnceAtConstruction ==
    /\ \A c \in Channels : handler[c].built => handler[c].token = handler[c].read
    /\ last.op = "construct" => last.calls = <<"get">>
    /\ last.op = "call"
          => /\ last.calls = << >>
             /\ request.sent_by = last.chan
             /\ request.authorization = Header("Bearer", handler[last.chan].read)

C13_Witness ==
    /\ last.op = "call"
    /\ handler[last.chan].read \in Secrets
    /\ OAuth2Entry(last.chan) # handler[last.chan].read
    /\ request.authorization = Header("Bearer", handler[last.chan].read)

\* C14: constructing an OAuth2Handler for a channel whose keyring entry is
\* missing fails with the error naming the channel and leaves no handler;
\* a handler that is called, and any Authorization header set, carries a
\* token its construction found.
C14_NoHandlerWithoutSecret ==
    /\ (last.op = "construct" /\ OAuth2Entry(last.chan) = NONE)
          => /\ last.err = E_NOCRED
             /\ last.names = last.chan
             /\ ~handler[last.chan].built
    /\ \A c \in Channels : handler[c].built => handler[c].read \in Secrets
    /\ request.authorization # NoHeader
          => /\ request.authorization.scheme = "Bearer"
             /\ request.authorization.cred \in Secrets

C14_Witness ==
    /\ last.op = "construct"
    /\ OAuth2Entry(last.chan) = NONE
    /\ last.err = E_NOCRED
    /\ last.names = last.chan
    /\ ~handler[last.chan].built
    /\ request.sent_by # last.chan

\* C15 as claimed: OAuth2Manager.store on a channel whose keyring entry
\* exists uses that entry without a prompt, and the configuration error for
\* login_url and the prompt happen only when the keyring holds no entry.
C15_SecretStoreCheckedFirst ==
    last.op = "oauth2_store"
        => /\ last.before # NONE
                 => /\ last.err = NONE
                    /\ ~last.prompted
                    /\ last.secret = last.before
           /\ (last.prompted \/ last.err = E_CONFIG) => last.before = NONE

\* C15: OAuth2Manager.store reads the keyring only once login_url is known
\* to be set; with login_url set, an entry the keyring holds is used as it is
\* without a prompt, and the prompt is shown exactly when there is no entry.
C15_LoginUrlThenSecretStore ==
    last.op = "oauth2_store"
        => IF last.settings.login_url = NONE
           THEN /\ last.err = E_CONFIG
                /\ last.calls = << >>
                /\ ~last.prompted
                /\ OAuth2Entry(last.chan) = last.before
           ELSE /\ last.err = NONE
                /\ last.calls = <<"get", "set">>
                /\ last.prompted <=> last.before = NONE
                /\ last.before # NONE => last.secret = last.before
                /\ OAuth2Entry(last.chan) = last.secret

C15_Witness ==
    /\ last.op = "oauth2_store"
    /\ last.settings.login_url # NONE
    /\ last.before \in Secrets
    /\ ~last.prompted
    /\ last.secret = last.before
    /\ last.err = NONE

\* C16: remove_secret on an entry the keyring does not hold ends with the
\* logout error: a logout (or the OAuth2 manager's remove_secret) that called
\* delete_password without removing anything reports that error and prints no
\* success message, and so does a logout that directly follows a successful
\* logout of the same channel, which leaves the keyring as it was.
C16_MissingEntrySurfaces ==
    /\ (last.op \in {"logout", "oauth2_remove"} /\ last.calls = <<"delete">>
            /\ ~last.kr_changed)
           => last.err = E_LOGOUT /\ ~last.echoed
    /\ (last.op = "logout" /\ last.after_logout)
           => /\ last.err = E_LOGOUT
              /\ last.calls = <<"delete">>
              /\ ~last.echoed
              /\ ~last.kr_changed

C16_Witness ==
    /\ last.op = "logout" /\ last.after_logout
    /\ last.err = E_LOGOUT
    /\ last.settings.username \in Users
    /\ ncmd = 3

\* the value written with the option on the command line, NONE when the
\* option is absent or stands alone
WrittenValue(argv, name) ==
    IF \E i \in 1..Len(argv) : argv[i].opt = LongOpt(name) /\ argv[i].joined
    THEN (CHOOSE a \in {argv[i] : i \in 1..Len(argv)} : a.opt = LongOpt(name)).val
    ELSE IF \E i \in 1..(Len(argv) - 1) :
                argv[i] = ArgOpt(LongOpt(name)) /\ argv[i + 1].opt = NONE
    THEN argv[(CHOOSE i \in 1..(Len(argv) - 1) : argv[i] = ArgOpt(LongOpt(name))) + 1].val
    ELSE NONE

\* C17: the settings login works with are the channel's persisted settings
\* with every value written on the command line laid over them; an option
\* that is absent or stands alone leaves the persisted value in place, and
\* auth and login_url are always the persisted ones.
C17_CliOverridesPersisted ==
    last.op = "login"
        => /\ \A name \in ParamNames :
                 last.settings[name] =
                     IF WrittenValue(last.argv, name) # NONE
                     THEN WrittenValue(last.argv, name)
                     ELSE last.persisted[name]
           /\ last.settings.auth = last.persisted.auth
           /\ last.settings.login_url = last.persisted.login_url

C17_Witness ==
    /\ last.op = "login"
    /\ Alone(last.argv, "username")
    /\ last.persisted.username = "alice"
    /\ last.settings.username = "alice"
    /\ WrittenValue(last.argv, "password") = "s2"
    /\ last.settings.password = "s2"

\* C18: a login, a logout, and the OAuth2 manager's store and remove_secret
\* on one channel change no keyring entry and no block of any other channel.
C18_OtherChannelsUntouched ==
    last.op \in {"login", "logout", "oauth2_store", "oauth2_remove"}
        => ~last.others_changed

C18_Witness ==
    /\ last.op = "login" /\ last.chan = "chan-b" /\ last.err = NONE
    /\ last.kr_changed /\ last.cs_changed
    /\ hist["chan-a"].has /\ hist["chan-a"].ok
    /\ RequestSecret("chan-a").secret = hist["chan-a"].secret
    /\ RequestSecret("chan-b").secret = last.secret
    /\ hist["chan-a"].secret # last.secret

\* C19: when the channel's block records a scheme the selector knows, a login
\* or logout selects that scheme whatever options are given, and the block
\* records the same scheme afterwards.
C19_RecordedSchemeIsKept ==
    (last.op \in {"login", "logout"} /\ last.persisted.auth \in VALID_AUTH_CHOICES)
        => /\ last.auth = last.persisted.auth
           /\ channel_settings[last.chan].auth = last.persisted.auth

C19_Witness ==
    /\ last.op = "login" /\ last.err = NONE
    /\ last.persisted.auth = HTTP_BASIC_AUTH_NAME
    /\ Given(last.argv, "token") /\ "token" \in last.used
    /\ last.auth = HTTP_BASIC_AUTH_NAME
    /\ channel_settings[last.chan].auth = HTTP_BASIC_AUTH_NAME

====
